---------------------------- MODULE Spec2Model ----------------------------
(* Model of makisu's HTTP request sender (package httputil: Send and its   *)
(* options, the retry loop, the error types and their classifiers) and of  *)
(* the registry auth transport factory (package security:                  *)
(* BasicAuthTransport, ping, defaultCredStore).                            *)
EXTENDS Integers, Sequences, FiniteSets, TLC

(***************************************************************************)
(* Bounds of the model.                                                    *)
(***************************************************************************)
\* Longest option list one Send call is given.
MaxOptions == 2
\* Largest retry count a caller-built backoff.WithMaxRetries(b, n) is given.
MaxCustomRetries == 2
\* Most API versions a registry advertises in one response.
MaxVersions == 2
\* Most attempts of one Send call that are followed: two calls that race on
\* one backoff generator can overwrite each other's count for ever.
MaxAttempts == 5

(***************************************************************************)
(* Program constants.                                                      *)
(***************************************************************************)
StatusOK == 200
StatusUnauthorized == 401
StatusTooManyRequests == 429
StatusBadGateway == 502
StatusServiceUnavailable == 503
StatusGatewayTimeout == 504
\* backoff.WithMaxRetries(b, 3) of SendRetry.
DefaultMaxRetries == 3
\* b.InitialInterval, in milliseconds; Multiplier = 1 keeps every wait at it.
InitialInterval == 250
\* backoff.Stop, the sentinel NextBackOff answers when no retry is left.
Stop == -1

\* var retryableCodes
retryableCodes ==
    {StatusTooManyRequests, StatusBadGateway, StatusServiceUnavailable,
     StatusGatewayTimeout}

\* The status codes the modelled servers answer with: an accepted-by-default
\* one, a non-retryable failure and a retryable failure.
Codes == {StatusOK, StatusUnauthorized, StatusServiceUnavailable}
\* resp == nil
NoResp == 0
\* The transport-level failures client.Do returns ("nil" is no failure);
\* "canceled" is the failure of a request whose context is cancelled.
TransportErrs == {"refused", "timeout"}
Canceled == "canceled"

Calls == {1, 2}
RetryIds == {1, 2}
\* opts.retry.backoff of a call given no SendRetry: its own &StopBackOff{}.
NoRetryId == 0

(***************************************************************************)
(* Errors.  An error value is the chain errors.As walks: the value itself  *)
(* and then whatever its Unwrap method yields.  No error type of these     *)
(* packages has an Unwrap method, and fmt.Errorf with the verb %s builds a *)
(* plain string error, so every chain built here has one link.             *)
(* nil is the empty chain.                                                 *)
(***************************************************************************)
NilErr == << >>

\* NetworkError{err}
NetworkError(cause) ==
    << [type |-> "NetworkError", status |-> NoResp,
        msg |-> <<"network error: ", cause>>] >>

\* StatusError.Error(): the message carries the status.
StatusErrorMsg(status) == <<"status ", ToString(status)>>

\* NewStatusError(resp)
NewStatusError(status) ==
    << [type |-> "StatusError", status |-> status,
        msg |-> StatusErrorMsg(status)] >>

\* err.Error()
ErrorString(e) == IF e = NilErr THEN << >> ELSE e[1].msg

\* fmt.Errorf(prefix + "%s", err): a new string error holding the text of
\* err; the chain of err is not kept.
Errorf(prefix, e) ==
    << [type |-> "errorString", status |-> NoResp,
        msg |-> <<prefix>> \o ErrorString(e)] >>

\* fmt.Errorf(text)
ErrorfText(text) ==
    << [type |-> "errorString", status |-> NoResp, msg |-> <<text>>] >>

\* errors.As(err, &target): the first link of the chain of the target's type.
ErrorsAs(e, type) ==
    LET hits == {i \in 1..Len(e) : e[i].type = type}
    IN  IF hits = {} THEN 0
        ELSE CHOOSE i \in hits : \A j \in hits : i <= j

IsStatus(e, status) ==
    LET i == ErrorsAs(e, "StatusError")
    IN  IF i # 0 THEN e[i].status = status ELSE FALSE

isRetryable(code) == code \in retryableCodes

IsRetryable(e) ==
    LET i == ErrorsAs(e, "StatusError")
    IN  IF i # 0 THEN isRetryable(e[i].status) ELSE FALSE

IsNetworkError(e) == ErrorsAs(e, "NetworkError") # 0

(***************************************************************************)
(* State.                                                                  *)
(***************************************************************************)
VARIABLES
    retryVals,  \* the SendRetry option values the caller has built
    backoffs,   \* the backoff generators those values point to
    pc,         \* where each Send call stands
    opts,       \* each call's merged sendOptions
    attempts,   \* the client.Do calls each Send call has made
    resp,       \* each call's resp: the status of the last response, or NoResp
    err,        \* each call's err: "nil" or the last transport failure
    d,          \* each call's d: the last answer of NextBackOff
    hist,       \* the outcomes of each call's attempts, in order
    ret,        \* what each Send call returned
    cancelled,  \* whether the context given to each call is cancelled
    net,        \* the outcomes the network and the servers can produce
    seen,       \* each call's copy of numTries, read inside NextBackOff
    req,        \* each call's req: the request newRequest built for it
    sent,       \* what each client.Do of a call put on the wire, in order
    bodies,     \* the Body of the response of each attempt of a call
    dump,       \* the ResponseDump of the StatusError a call returned
    handed,     \* the answers NextBackOff gave each call, in order
    addr,       \* BasicAuthTransport's addr, a string of characters
    repo,       \* BasicAuthTransport's repo
    authConfig, \* BasicAuthTransport's authConfig
    registry,   \* the headers the registry at addr puts on its responses
    fpc,        \* where the BasicAuthTransport call stands
    managers,   \* the challenge managers built so far
    cm,         \* ping's cm: an index into managers, or NilManager
    pingErr,    \* the error ping returned
    handler,    \* the authentication handler selected
    transport,  \* the transport BasicAuthTransport returned
    ferr,       \* the error BasicAuthTransport returned
    called      \* the calls made on the credential store, with their results

sendVars ==
    <<retryVals, backoffs, pc, opts, attempts, resp, err, d, hist, ret,
      cancelled, net, seen, req, sent, bodies, dump, handed>>

factoryVars ==
    <<addr, repo, authConfig, registry, fpc, managers, cm, pingErr, handler,
      transport, ferr, called>>

vars == <<sendVars, factoryVars>>

(***************************************************************************)
(* Backoff generators (github.com/cenkalti/backoff, as Send uses them).    *)
(***************************************************************************)
BackoffIds == {NoRetryId} \cup RetryIds

NoBackoff == [kind |-> "none", maxTries |-> 0, numTries |-> 0]
\* &backoff.StopBackOff{}
StopBackOff == [kind |-> "StopBackOff", maxTries |-> 0, numTries |-> 0]
\* backoff.WithMaxRetries(b, n) around the exponential backoff of SendRetry
WithMaxRetries(n) == [kind |-> "MaxRetries", maxTries |-> n, numTries |-> 0]

\* HasTries with the bound on the tries off by one.
HasTries_OffByOne(b) == b.kind = "MaxRetries" /\ b.numTries <= b.maxTries

\* Whether b.NextBackOff() hands out another wait: a StopBackOff never
\* does, and backOffTries does while maxTries > numTries.  It counts the
\* waits it handed out and nothing in Send resets the count.
HasTries(b) == b.kind = "MaxRetries" /\ b.numTries < b.maxTries

(***************************************************************************)
(* Options.                                                                *)
(***************************************************************************)
\* body == nil: a request without a body.
NoBody == << >>
\* The body a caller gives with SendBody: a stream, read once from its
\* front.
Body == <<"b1", "b2">>

\* The defaults Send starts from; scheme is that of the parsed rawurl.
DefaultOptions(scheme) ==
    [acceptedCodes        |-> {StatusOK},
     retry                |-> [backoff |-> NoRetryId, extraCodes |-> {}],
     transport            |-> "default",
     ctx                  |-> "background",
     scheme               |-> scheme,
     body                 |-> NoBody,
     httpFallbackDisabled |-> FALSE]

SendAcceptedCodes(codes) ==
    [name |-> "SendAcceptedCodes", codes |-> codes, id |-> 0]
\* The option value SendRetry(...) returned: it holds retryVals[id].
SendRetryOption(id) == [name |-> "SendRetry", codes |-> {}, id |-> id]
SendContext == [name |-> "SendContext", codes |-> {}, id |-> 0]
SendTLSTransport == [name |-> "SendTLSTransport", codes |-> {}, id |-> 0]
\* SendBody(body), with body the stream Body.
SendBody == [name |-> "SendBody", codes |-> {}, id |-> 0]
DisableHTTPFallback == [name |-> "DisableHTTPFallback", codes |-> {}, id |-> 0]

\* o(opts) for one option o.
ApplyOption(o, op) ==
    CASE op.name = "SendAcceptedCodes" -> [o EXCEPT !.acceptedCodes = op.codes]
      [] op.name = "SendRetry" ->
            [o EXCEPT !.retry = [backoff    |-> retryVals[op.id].backoff,
                                 extraCodes |-> retryVals[op.id].extraCodes]]
      [] op.name = "SendContext" -> [o EXCEPT !.ctx = "caller"]
      [] op.name = "SendTLSTransport" ->
            [o EXCEPT !.transport = "tr", !.scheme = "https"]
      [] op.name = "SendBody" -> [o EXCEPT !.body = Body]
      [] op.name = "DisableHTTPFallback" ->
            [o EXCEPT !.httpFallbackDisabled = TRUE]

\* for _, o := range options { o(opts) }
RECURSIVE ApplyOptions(_, _)
ApplyOptions(o, options) ==
    IF options = << >> THEN o
    ELSE ApplyOptions(ApplyOption(o, Head(options)), Tail(options))

\* The option values a caller can pass.
OptionValues ==
    {SendAcceptedCodes(cs) : cs \in SUBSET Codes}
      \cup {SendRetryOption(id) : id \in {i \in RetryIds : retryVals[i].made}}
      \cup {SendContext, SendTLSTransport, SendBody, DisableHTTPFallback}

\* The options every list of at most n of the option values merges to,
\* from o.
RECURSIVE Merged(_, _, _)
Merged(o, n, values) ==
    IF n = 0 THEN {o}
    ELSE LET shorter == Merged(o, n - 1, values)
         IN  shorter \cup
               {ApplyOptions(m, <<op>>) : m \in shorter, op \in values}

(***************************************************************************)
(* The outcomes of client.Do.                                              *)
(***************************************************************************)
Response(status) == [err |-> "nil", status |-> status]
Failure(cause) == [err |-> cause, status |-> NoResp]
Outcomes ==
    {Response(s) : s \in Codes} \cup {Failure(e) : e \in TransportErrs}

shouldRetry(status, o) ==
    IF status # NoResp
    THEN (isRetryable(status) /\ status \notin o.acceptedCodes)
           \/ status \in o.retry.extraCodes
    ELSE FALSE

NoRet == [resp |-> NoResp, err |-> NilErr]

(***************************************************************************)
(* Requests and response bodies.                                           *)
(***************************************************************************)
\* No request built yet.
NoReq == [built |-> 0, scheme |-> "", body |-> NoBody]

\* newRequest(method, opts): the request for opts.url with opts.body as its
\* body stream; built counts the requests built for the call so far.
newRequest(o, built) ==
    [built |-> built + 1, scheme |-> o.scheme, body |-> o.body]

\* What client.Do(r) has to put on the wire: the request goes to r's url,
\* and its body is what is left of r's body stream.
Transmit(r) == [request |-> r.built, scheme |-> r.scheme, body |-> r.body]

\* The request after an attempt in which the transport read k bytes of the
\* body: the stream has moved on by k bytes.
Consumed(r, k) == [r EXCEPT !.body = SubSeq(r.body, k + 1, Len(r.body))]

\* The contents servers give the bodies of their responses.
Contents == {<< >>, <<"denied">>}
\* The failures reading a response body can end in ("nil" is none).
ReadErrs == {"reset"}

\* resp.Body of a response client.Do has just returned: an open stream
\* nobody has read; data is what has been read from it.
NewBody ==
    [present |-> TRUE, reads |-> 0, closes |-> 0, data |-> << >>,
     readErr |-> "nil"]
\* An attempt that failed in the transport has no response and no body.
NilBody == [NewBody EXCEPT !.present = FALSE]

\* What ioutil.ReadAll(resp.Body) can come to: the content the server gave
\* the body, read to its end or with a failure on the way.
ReadOutcomes ==
    [content : Contents, err : {"nil"} \cup ReadErrs]

\* respDump of NewStatusError: the bytes read as a string, or the text that
\* says the read failed.
ResponseDump(r) ==
    IF r.err # "nil" THEN <<"failed to dump response: ", r.err>>
    ELSE r.content

\* ReadAndClose without the deferred Close.
ReadAndClose_Leaks(b, r) ==
    [b EXCEPT !.reads = @ + 1, !.data = r.content, !.readErr = r.err]

\* NewStatusError on a body b: ioutil.ReadAll(resp.Body) with the outcome
\* r, and the deferred resp.Body.Close().
ReadAndClose(b, r) ==
    [b EXCEPT !.reads = @ + 1, !.data = r.content, !.readErr = r.err,
              !.closes = @ + 1]

(***************************************************************************)
(* The caller builds a retry option: SendRetry(options...).                *)
(***************************************************************************)
ExtraCodeChoices == SUBSET {StatusOK, StatusUnauthorized}
BackoffChoices ==
    {WithMaxRetries(DefaultMaxRetries), StopBackOff}
      \cup {WithMaxRetries(n) : n \in 1..MaxCustomRetries}

SendRetryWith(id, b, extra) ==
    /\ ~retryVals[id].made
    /\ retryVals' = [retryVals EXCEPT
                       ![id] = [made |-> TRUE, backoff |-> id,
                                extraCodes |-> extra]]
    /\ backoffs' = [backoffs EXCEPT ![id] = b]
    /\ UNCHANGED <<pc, opts, attempts, resp, err, d, hist, ret, cancelled,
                   net, seen>>
    /\ UNCHANGED <<req, sent, bodies, dump, handed>>
    /\ UNCHANGED factoryVars

SendRetry(id) ==
    /\ ~retryVals[id].made
    /\ \E b \in BackoffChoices, extra \in ExtraCodeChoices :
           SendRetryWith(id, b, extra)

(***************************************************************************)
(* Send.                                                                   *)
(***************************************************************************)
\* Send up to the loop, with o the options merged on the defaults.
SendMerged(c, o) ==
    /\ pc[c] = "idle"
    /\ opts' = [opts EXCEPT ![c] = o]
    /\ pc' = [pc EXCEPT ![c] = "loop"]
    /\ req' = [req EXCEPT ![c] = newRequest(o, req[c].built)]
    /\ UNCHANGED <<retryVals, backoffs, attempts, resp, err, d, hist, ret,
                   cancelled, net, seen>>
    /\ UNCHANGED <<sent, bodies, dump, handed>>

\* Send returns before its loop: url.Parse fails on rawurl, or newRequest
\* fails (http.NewRequest rejects the method or the url).
SendRejects(c) ==
    /\ pc[c] = "idle"
    /\ \E stage \in {"parse url: ", "new request: "} :
           ret' = [ret EXCEPT
                     ![c] = [resp |-> NoResp,
                             err  |-> Errorf(stage, ErrorfText("invalid"))]]
    /\ pc' = [pc EXCEPT ![c] = "rejected"]
    /\ UNCHANGED <<retryVals, backoffs, opts, attempts, resp, err, d, hist,
                   cancelled, net, seen>>
    /\ UNCHANGED <<req, sent, bodies, dump, handed>>
    /\ UNCHANGED factoryVars

\* Send called with the url scheme and the option list given.
SendWith(c, scheme, options) ==
    SendMerged(c, ApplyOptions(DefaultOptions(scheme), options))

Send(c) ==
    /\ pc[c] = "idle"
    /\ \E scheme \in {"http", "https"} :
           \E o \in Merged(DefaultOptions(scheme), MaxOptions, OptionValues) :
               SendMerged(c, o)
    /\ UNCHANGED factoryVars

\* DoBegin with a failed https attempt tried again over http, unless the
\* call has the fallback disabled.
DoBegin_FallsBack(c) ==
    /\ pc[c] = "loop"
    /\ attempts[c] < MaxAttempts
    /\ attempts' = [attempts EXCEPT ![c] = attempts[c] + 1]
    /\ pc' = [pc EXCEPT ![c] = "inflight"]
    /\ \E k \in 0..Len(req[c].body) :
           /\ sent' = [sent EXCEPT
                         ![c] = Append(sent[c],
                                  IF /\ err[c] # "nil"
                                     /\ ~opts[c].httpFallbackDisabled
                                  THEN [Transmit(req[c]) EXCEPT
                                          !.scheme = "http"]
                                  ELSE Transmit(req[c]))]
           /\ req' = [req EXCEPT ![c] = Consumed(req[c], k)]
    /\ UNCHANGED <<retryVals, backoffs, opts, resp, err, d, hist, ret,
                   cancelled, net, seen>>
    /\ UNCHANGED <<bodies, dump, handed>>
    /\ UNCHANGED factoryVars

\* client.Do(req) is entered: the request is on the wire, and the transport
\* reads its body stream, to the end or as far as it gets before the attempt
\* ends.
DoBegin(c) ==
    /\ pc[c] = "loop"
    /\ attempts[c] < MaxAttempts
    /\ attempts' = [attempts EXCEPT ![c] = attempts[c] + 1]
    /\ pc' = [pc EXCEPT ![c] = "inflight"]
    /\ \E k \in 0..Len(req[c].body) :
           /\ sent' = [sent EXCEPT ![c] = Append(sent[c], Transmit(req[c]))]
           /\ req' = [req EXCEPT ![c] = Consumed(req[c], k)]
    /\ UNCHANGED <<retryVals, backoffs, opts, resp, err, d, hist, ret,
                   cancelled, net, seen>>
    /\ UNCHANGED <<bodies, dump, handed>>
    /\ UNCHANGED factoryVars

\* DoReturns with a failure of an earlier attempt kept in err.
DoReturns_KeepsErr(c, out) ==
    /\ pc[c] = "inflight"
    /\ resp' = [resp EXCEPT ![c] = out.status]
    /\ err' = [err EXCEPT ![c] = IF err[c] # "nil" THEN err[c] ELSE out.err]
    /\ hist' = [hist EXCEPT ![c] = Append(hist[c], out)]
    /\ bodies' = [bodies EXCEPT
                     ![c] = Append(bodies[c], IF out.err = "nil" THEN NewBody
                                              ELSE NilBody)]
    /\ pc' = [pc EXCEPT ![c] = "check"]
    /\ UNCHANGED <<retryVals, backoffs, opts, attempts, d, ret, cancelled,
                   net, seen>>
    /\ UNCHANGED <<req, sent, dump, handed>>
    /\ UNCHANGED factoryVars

\* resp, err = client.Do(req): with out the outcome of the attempt.
DoReturns(c, out) ==
    /\ pc[c] = "inflight"
    /\ resp' = [resp EXCEPT ![c] = out.status]
    /\ err' = [err EXCEPT ![c] = out.err]
    /\ hist' = [hist EXCEPT ![c] = Append(hist[c], out)]
    /\ bodies' = [bodies EXCEPT
                     ![c] = Append(bodies[c], IF out.err = "nil" THEN NewBody
                                              ELSE NilBody)]
    /\ pc' = [pc EXCEPT ![c] = "check"]
    /\ UNCHANGED <<retryVals, backoffs, opts, attempts, d, ret, cancelled,
                   net, seen>>
    /\ UNCHANGED <<req, sent, dump, handed>>
    /\ UNCHANGED factoryVars

\* A request whose context is cancelled fails; any other gets whatever the
\* network and the server make of it.
DoEnd(c) ==
    IF opts[c].ctx = "caller" /\ cancelled[c]
    THEN DoReturns(c, Failure(Canceled))
    ELSE \E out \in net : DoReturns(c, out)

\* Consult without the break on backoff.Stop.
Consult_IgnoresStop(c) ==
    /\ pc[c] = "check"
    /\ err[c] # "nil" \/ shouldRetry(resp[c], opts[c])
    /\ LET b == opts[c].retry.backoff
       IN  IF HasTries(backoffs[b])
           THEN /\ seen' = [seen EXCEPT ![c] = backoffs[b].numTries]
                /\ pc' = [pc EXCEPT ![c] = "counting"]
                /\ UNCHANGED <<d, handed>>
           ELSE /\ d' = [d EXCEPT ![c] = Stop]
                /\ handed' = [handed EXCEPT ![c] = Append(handed[c], Stop)]
                /\ pc' = [pc EXCEPT ![c] = "sleep"]
                /\ UNCHANGED seen
    /\ UNCHANGED <<retryVals, backoffs, opts, attempts, resp, err, hist, ret,
                   cancelled, net>>
    /\ UNCHANGED <<req, sent, bodies, dump>>
    /\ UNCHANGED factoryVars

\* if err != nil || shouldRetry(resp, opts) { d := NextBackOff() ... }:
\* NextBackOff is entered and reads the generator.  With no tries left it
\* answers Stop and the loop breaks; otherwise it goes on to count the try.
Consult(c) ==
    /\ pc[c] = "check"
    /\ err[c] # "nil" \/ shouldRetry(resp[c], opts[c])
    /\ LET b == opts[c].retry.backoff
       IN  IF HasTries(backoffs[b])
           THEN /\ seen' = [seen EXCEPT ![c] = backoffs[b].numTries]
                /\ pc' = [pc EXCEPT ![c] = "counting"]
                /\ UNCHANGED <<d, handed>>
           ELSE /\ d' = [d EXCEPT ![c] = Stop]
                /\ handed' = [handed EXCEPT ![c] = Append(handed[c], Stop)]
                /\ pc' = [pc EXCEPT ![c] = "exit"]
                /\ UNCHANGED seen
    /\ UNCHANGED <<retryVals, backoffs, opts, attempts, resp, err, hist, ret,
                   cancelled, net>>
    /\ UNCHANGED <<req, sent, bodies, dump>>
    /\ UNCHANGED factoryVars

\* Count with the try left uncounted.
Count_Forgets(c) ==
    /\ pc[c] = "counting"
    /\ d' = [d EXCEPT ![c] = InitialInterval]
    /\ handed' = [handed EXCEPT ![c] = Append(handed[c], InitialInterval)]
    /\ pc' = [pc EXCEPT ![c] = "sleep"]
    /\ UNCHANGED <<retryVals, backoffs, opts, attempts, resp, err, hist, ret,
                   cancelled, net, seen>>
    /\ UNCHANGED <<req, sent, bodies, dump>>
    /\ UNCHANGED factoryVars

\* b.numTries++ stores the count read plus one (the generator is not
\* synchronised: a count another call stored meanwhile is overwritten), and
\* NextBackOff answers the wait of the wrapped exponential backoff, whose
\* Multiplier is 1: InitialInterval.
Count(c) ==
    /\ pc[c] = "counting"
    /\ LET b == opts[c].retry.backoff
       IN  backoffs' = [backoffs EXCEPT ![b].numTries = seen[c] + 1]
    /\ d' = [d EXCEPT ![c] = InitialInterval]
    /\ handed' = [handed EXCEPT ![c] = Append(handed[c], InitialInterval)]
    /\ pc' = [pc EXCEPT ![c] = "sleep"]
    /\ UNCHANGED <<retryVals, opts, attempts, resp, err, hist, ret,
                   cancelled, net, seen>>
    /\ UNCHANGED <<req, sent, bodies, dump>>
    /\ UNCHANGED factoryVars

\* otherwise: break
NoRetry(c) ==
    /\ pc[c] = "check"
    /\ ~(err[c] # "nil" \/ shouldRetry(resp[c], opts[c]))
    /\ pc' = [pc EXCEPT ![c] = "exit"]
    /\ UNCHANGED <<retryVals, backoffs, opts, attempts, resp, err, d, hist,
                   ret, cancelled, net, seen>>
    /\ UNCHANGED <<req, sent, bodies, dump, handed>>
    /\ UNCHANGED factoryVars

\* time.Sleep(d) ends; continue
Wake(c) ==
    /\ pc[c] = "sleep"
    /\ pc' = [pc EXCEPT ![c] = "loop"]
    /\ UNCHANGED <<retryVals, backoffs, opts, attempts, resp, err, d, hist,
                   ret, cancelled, net, seen>>
    /\ UNCHANGED <<req, sent, bodies, dump, handed>>
    /\ UNCHANGED factoryVars

\* Result with every 200 taken for a success, accepted or not.
Result_OKIsSuccess(c) ==
    IF err[c] # "nil" THEN [resp |-> NoResp, err |-> NetworkError(err[c])]
    ELSE IF resp[c] # StatusOK /\ resp[c] \notin opts[c].acceptedCodes
         THEN [resp |-> NoResp, err |-> NewStatusError(resp[c])]
         ELSE [resp |-> resp[c], err |-> NilErr]

\* Result with the response returned along with the StatusError.
Result_KeepsResp(c) ==
    IF err[c] # "nil" THEN [resp |-> NoResp, err |-> NetworkError(err[c])]
    ELSE IF resp[c] \notin opts[c].acceptedCodes
         THEN [resp |-> resp[c], err |-> NewStatusError(resp[c])]
         ELSE [resp |-> resp[c], err |-> NilErr]

\* What Send returns after the loop.
Result(c) ==
    IF err[c] # "nil" THEN [resp |-> NoResp, err |-> NetworkError(err[c])]
    ELSE IF resp[c] \notin opts[c].acceptedCodes
         THEN [resp |-> NoResp, err |-> NewStatusError(resp[c])]
         ELSE [resp |-> resp[c], err |-> NilErr]

\* return ...: with a StatusError to return, NewStatusError first reads the
\* body of resp, the response of the last attempt, into the dump and closes
\* it; no other return touches a body.
Return(c) ==
    /\ pc[c] = "exit"
    /\ ret' = [ret EXCEPT ![c] = Result(c)]
    /\ IF ErrorsAs(Result(c).err, "StatusError") # 0
       THEN \E r \in ReadOutcomes :
                /\ bodies' = [bodies EXCEPT
                                 ![c][Len(bodies[c])] = ReadAndClose(@, r)]
                /\ dump' = [dump EXCEPT ![c] = ResponseDump(r)]
       ELSE UNCHANGED <<bodies, dump>>
    /\ pc' = [pc EXCEPT ![c] = "done"]
    /\ UNCHANGED <<retryVals, backoffs, opts, attempts, resp, err, d, hist,
                   cancelled, net, seen>>
    /\ UNCHANGED <<req, sent, handed>>
    /\ UNCHANGED factoryVars

\* The caller cancels the context it gave the call.
Cancel(c) ==
    /\ pc[c] \notin {"idle", "done"}
    /\ opts[c].ctx = "caller"
    /\ ~cancelled[c]
    /\ cancelled' = [cancelled EXCEPT ![c] = TRUE]
    /\ UNCHANGED <<retryVals, backoffs, pc, opts, attempts, resp, err, d,
                   hist, ret, net, seen>>
    /\ UNCHANGED <<req, sent, bodies, dump, handed>>
    /\ UNCHANGED factoryVars

(***************************************************************************)
(* Specifications.                                                         *)
(***************************************************************************)
InitSend ==
    /\ retryVals = [i \in RetryIds |->
                      [made |-> FALSE, backoff |-> NoRetryId, extraCodes |-> {}]]
    /\ backoffs = [i \in BackoffIds |->
                     IF i = NoRetryId THEN StopBackOff ELSE NoBackoff]
    /\ pc = [c \in Calls |-> "idle"]
    /\ opts = [c \in Calls |-> DefaultOptions("http")]
    /\ attempts = [c \in Calls |-> 0]
    /\ resp = [c \in Calls |-> NoResp]
    /\ err = [c \in Calls |-> "nil"]
    /\ d = [c \in Calls |-> 0]
    /\ hist = [c \in Calls |-> << >>]
    /\ ret = [c \in Calls |-> NoRet]
    /\ cancelled = [c \in Calls |-> FALSE]
    /\ seen = [c \in Calls |-> 0]
    /\ req = [c \in Calls |-> NoReq]
    /\ sent = [c \in Calls |-> << >>]
    /\ bodies = [c \in Calls |-> << >>]
    /\ dump = [c \in Calls |-> << >>]
    /\ handed = [c \in Calls |-> << >>]

(***************************************************************************)
(* The registry auth transport factory.                                    *)
(***************************************************************************)
\* var v2Version
v2Version == [Type |-> "registry", Version |-> "2.0"]
\* The API versions auth.APIVersions can read from a response.
APIVersions ==
    {v2Version, [Type |-> "registry", Version |-> "1.0"],
     [Type |-> "other", Version |-> "2.0"]}
VersionLists == UNION {[1..n -> APIVersions] : n \in 0..MaxVersions}

\* "amazonaws.com"
EcrSuffix == <<"a", "m", "a", "z", "o", "n", "a", "w", "s", ".", "c", "o", "m">>

\* The registry addresses tried: amazonaws.com itself, a host under it, a
\* host name that merely ends in the same letters, the suffix followed by a
\* port or by a further domain, the suffix less its first letter, and a
\* registry elsewhere.
Addrs ==
    {EcrSuffix,
     <<"e", "c", "r", ".">> \o EcrSuffix,
     <<"x">> \o EcrSuffix,
     EcrSuffix \o <<":", "5">>,
     EcrSuffix \o <<".", "c", "n">>,
     Tail(EcrSuffix),
     <<"d", ".", "i", "o">>}

\* strings.HasSuffix with the needle sought at the front.
HasSuffix_Prefix(s, suffix) ==
    /\ Len(s) >= Len(suffix)
    /\ SubSeq(s, 1, Len(suffix)) = suffix

\* strings.HasSuffix(s, suffix)
HasSuffix(s, suffix) ==
    /\ Len(s) >= Len(suffix)
    /\ SubSeq(s, Len(s) - Len(suffix) + 1, Len(s)) = suffix

NilManager == 0
NoHandler ==
    [scheme |-> "none", creds |-> "none", scopes |-> << >>, clientID |-> "",
     forceOAuth |-> FALSE]
NoTransport == [base |-> "nil", cm |-> NilManager, handler |-> NoHandler]

\* defaultCredStore{authConfig}
defaultCredStore(config) == [config |-> config]

\* auth.NewBasicHandler(creds)
NewBasicHandler(creds) ==
    [scheme |-> "Basic", creds |-> creds, scopes |-> << >>, clientID |-> "",
     forceOAuth |-> FALSE]

\* auth.NewTokenHandlerWithOptions(...)
NewTokenHandler(creds, repository) ==
    [scheme |-> "Bearer", creds |-> creds,
     scopes |-> <<[Repository |-> repository, Actions |-> <<"pull", "push">>]>>,
     clientID |-> "docker", forceOAuth |-> FALSE]

\* transport.NewTransport(tr, auth.NewAuthorizer(cm, handler))
NewTransport(manager, h) == [base |-> "tr", cm |-> manager, handler |-> h]

\* The response ping reads: the status Send returned and the registry's
\* headers.
ProbeResponse ==
    [status |-> ret[1].resp, versions |-> registry.versions,
     challenge |-> registry.challenge]

\* version == v2Version, with the version numbers left uncompared.
VersionMatches_TypeOnly(version) == version.Type = v2Version.Type

\* version == v2Version
VersionMatches(version) == version = v2Version

\* cm.AddResponse(resp) fails on a challenge header it cannot parse.
AddResponseFails(r) == r.challenge = "malformed"

\* for _, version := range versions { ... }: the first version that is
\* v2Version gets a new manager, which is fed the response, and ends ping;
\* with none, ping ends in the not-v2 error.
RECURSIVE PingLoop(_)
PingLoop(versions) ==
    IF versions = << >>
    THEN [err |-> ErrorfText("registry is not v2"), cm |-> NilManager,
          managers |-> managers]
    ELSE IF VersionMatches(Head(versions))
         THEN LET built == Append(managers, [responses |-> <<ProbeResponse>>])
              IN  IF AddResponseFails(ProbeResponse)
                  THEN [err |-> Errorf("add response: ",
                                       ErrorfText("invalid challenge")),
                        cm |-> NilManager, managers |-> built]
                  ELSE [err |-> NilErr, cm |-> Len(built), managers |-> built]
         ELSE PingLoop(Tail(versions))

\* What ping returns once its Send has: the error, the manager (an index
\* into the managers built) and those managers.
PingResult ==
    IF ret[1].err # NilErr
    THEN [err |-> ret[1].err, cm |-> NilManager, managers |-> managers]
    ELSE PingLoop(registry.versions)

\* BasicAuthTransport goes on after a failed ping.
AfterPing_IgnoresErr(e) == "Probed"

\* if err != nil { return nil, ... }
AfterPing(e) == IF e # NilErr THEN "Failed" ELSE "Probed"

\* BasicAuthTransport calls ping, and ping calls Send.
Ping ==
    /\ fpc = "Unauthenticated"
    /\ SendWith(1, "https",
                <<SendTLSTransport,
                  SendAcceptedCodes({StatusOK, StatusUnauthorized})>>)
    /\ fpc' = "Pinging"
    /\ UNCHANGED <<addr, repo, authConfig, registry, managers, cm, pingErr,
                   handler, transport, ferr>>
    /\ UNCHANGED called

\* Send has returned: the rest of ping, and the error check on its result.
PingReturns ==
    /\ fpc = "Pinging"
    /\ pc[1] = "done"
    /\ managers' = PingResult.managers
    /\ cm' = PingResult.cm
    /\ pingErr' = PingResult.err
    /\ fpc' = AfterPing(PingResult.err)
    /\ ferr' = IF PingResult.err # NilErr
               THEN Errorf("ping v2 registry: ", PingResult.err)
               ELSE NilErr
    /\ UNCHANGED <<addr, repo, authConfig, registry, handler, transport>>
    /\ UNCHANGED called
    /\ UNCHANGED sendVars

\* The handler BasicAuthTransport picks.
SelectedHandler ==
    IF /\ authConfig.Username # ""
       /\ authConfig.Password # ""
       /\ HasSuffix(addr, EcrSuffix)
    THEN NewBasicHandler(defaultCredStore(authConfig))
    ELSE NewTokenHandler(defaultCredStore(authConfig), repo)

SelectScheme ==
    /\ fpc = "Probed"
    /\ handler' = SelectedHandler
    /\ fpc' = "SchemeSelected"
    /\ UNCHANGED <<addr, repo, authConfig, registry, managers, cm, pingErr,
                   transport, ferr>>
    /\ UNCHANGED called
    /\ UNCHANGED sendVars

\* return transport.NewTransport(tr, auth.NewAuthorizer(cm, handler)), nil
ReturnTransport ==
    /\ fpc = "SchemeSelected"
    /\ transport' = NewTransport(cm, handler)
    /\ fpc' = "TransportReady"
    /\ UNCHANGED <<addr, repo, authConfig, registry, managers, cm, pingErr,
                   handler, ferr>>
    /\ UNCHANGED called
    /\ UNCHANGED sendVars

(***************************************************************************)
(* The credential store, as the auth layer of the returned transport calls *)
(* it.                                                                     *)
(***************************************************************************)
\* The urls, services and tokens the store is called with.
StoreURLs == {"https://registry/v2/", "https://auth/token"}
Services == {"registry", "other"}
Tokens == {"tok", "rotated"}

\* func (cs defaultCredStore) Basic(*url.URL) (string, string)
Basic(cs, u) == <<cs.config.Username, cs.config.Password>>

\* func (cs defaultCredStore) RefreshToken(*url.URL, string) string
RefreshToken(cs, u, service) == <<cs.config.IdentityToken>>

\* SetRefreshToken keeping the token it is given.
SetRefreshToken_Stores(cs, u, service, token) ==
    [cs EXCEPT !.config.IdentityToken = token]

\* func (cs defaultCredStore) SetRefreshToken(*url.URL, string, string) {}:
\* the store after the call.
SetRefreshToken(cs, u, service, token) == cs

\* No call made on the store yet.
NoCall ==
    [op |-> "none", url |-> "", service |-> "", result |-> << >>,
     given |-> ""]

\* The record of a call, with given the token SetRefreshToken was last
\* given.
StoreCall(op, u, service, result, given) ==
    [op |-> op, url |-> u, service |-> service, result |-> result,
     given |-> given]

CallBasic ==
    /\ fpc = "TransportReady"
    /\ \E u \in StoreURLs :
           called' = StoreCall("Basic", u, "",
                               Basic(transport.handler.creds, u),
                               called.given)
    /\ UNCHANGED <<addr, repo, authConfig, registry, fpc, managers, cm,
                   pingErr, handler, transport, ferr>>
    /\ UNCHANGED sendVars

CallRefreshToken ==
    /\ fpc = "TransportReady"
    /\ \E u \in StoreURLs, service \in Services :
           called' = StoreCall("RefreshToken", u, service,
                               RefreshToken(transport.handler.creds, u,
                                            service),
                               called.given)
    /\ UNCHANGED <<addr, repo, authConfig, registry, fpc, managers, cm,
                   pingErr, handler, transport, ferr>>
    /\ UNCHANGED sendVars

CallSetRefreshToken ==
    /\ fpc = "TransportReady"
    /\ \E u \in StoreURLs, service \in Services, token \in Tokens :
           /\ transport' =
                  [transport EXCEPT
                     !.handler.creds = SetRefreshToken(@, u, service, token)]
           /\ called' = StoreCall("SetRefreshToken", u, service, << >>, token)
    /\ UNCHANGED <<addr, repo, authConfig, registry, fpc, managers, cm,
                   pingErr, handler, ferr>>
    /\ UNCHANGED sendVars

(***************************************************************************)
(* Specifications.                                                         *)
(***************************************************************************)
\* No BasicAuthTransport call.
NoFactory ==
    /\ addr = << >>
    /\ repo = ""
    /\ authConfig = [Username |-> "", Password |-> "", IdentityToken |-> ""]
    /\ registry = [versions |-> << >>, challenge |-> "none"]
    /\ fpc = "Unauthenticated"
    /\ managers = << >>
    /\ cm = NilManager
    /\ pingErr = NilErr
    /\ handler = NoHandler
    /\ transport = NoTransport
    /\ ferr = NilErr
    /\ called = NoCall

\* One caller, one Send call, any options, any network.
Init == InitSend /\ net = Outcomes /\ NoFactory

SendStep(c) ==
    \/ Send(c)
    \/ SendRejects(c)
    \/ DoBegin(c)
    \/ DoEnd(c)
    \/ Consult(c)
    \/ Count(c)
    \/ NoRetry(c)
    \/ Wake(c)
    \/ Return(c)
    \/ Cancel(c)

Next == SendRetry(1) \/ SendStep(1)

Spec == Init /\ [][Next]_vars

\* The steps of the loop of Send and its return.  Each of them ends: the
\* client has a timeout, NextBackOff only computes, time.Sleep(d) wakes
\* after d.
Loop(c) ==
    \/ DoBegin(c)
    \/ DoEnd(c)
    \/ Consult(c)
    \/ Count(c)
    \/ NoRetry(c)
    \/ Wake(c)
    \/ Return(c)

\* The servers answer 200 or 503, or the transport times out.
InitLive ==
    /\ InitSend
    /\ NoFactory
    /\ net = {Response(StatusOK), Response(StatusServiceUnavailable),
              Failure("timeout")}

\* One Send call that is scheduled: whichever step it stands at is taken in
\* the end.
SpecLive == InitLive /\ [][Next]_vars /\ WF_vars(Loop(1))

\* One BasicAuthTransport call: any address, repository and credentials,
\* against any registry and network.
InitFactory ==
    /\ InitSend
    /\ net = Outcomes
    /\ addr \in Addrs
    /\ repo \in {"library/alpine", "team/app"}
    /\ authConfig \in [Username : {"", "AWS"}, Password : {"", "pw"},
                        IdentityToken : {"tok"}]
    /\ registry \in [versions : VersionLists,
                      challenge : {"none", "Basic", "Bearer", "malformed"}]
    /\ fpc = "Unauthenticated"
    /\ managers = << >>
    /\ cm = NilManager
    /\ pingErr = NilErr
    /\ handler = NoHandler
    /\ transport = NoTransport
    /\ ferr = NilErr
    /\ called = NoCall

NextFactory ==
    \/ Ping
    \/ DoBegin(1)
    \/ DoEnd(1)
    \/ Consult(1)
    \/ NoRetry(1)
    \/ Return(1)
    \/ PingReturns
    \/ SelectScheme
    \/ ReturnTransport
    \/ CallBasic
    \/ CallRefreshToken
    \/ CallSetRefreshToken

SpecFactory == InitFactory /\ [][NextFactory]_vars

\* Two Send calls given the same url and the same option values, accepted
\* codes and retry options (go Send(...) twice, or one call after the other:
\* the second may make its first attempt at any time, also after the first
\* call has returned).
SendTwice ==
    /\ \A c \in Calls : pc[c] = "idle"
    /\ \E o \in Merged(DefaultOptions("https"), MaxOptions,
                        OptionValues \ {SendContext, SendTLSTransport}) :
           /\ opts' = [c \in Calls |-> o]
           /\ req' = [c \in Calls |-> newRequest(o, req[c].built)]
           /\ pc' = [c \in Calls |-> "loop"]
    /\ UNCHANGED <<retryVals, backoffs, attempts, resp, err, d, hist, ret,
                   cancelled, net, seen>>
    /\ UNCHANGED <<sent, bodies, dump, handed>>
    /\ UNCHANGED factoryVars

\* The servers of the two calls answer 200 or 503.
InitTwo ==
    /\ InitSend
    /\ NoFactory
    /\ net = {Response(StatusOK), Response(StatusServiceUnavailable)}

\* The retry option of the two calls, when they are given one, is the plain
\* SendRetry().
NextTwo ==
    \/ SendRetryWith(1, WithMaxRetries(DefaultMaxRetries), {})
    \/ SendTwice
    \/ \E c \in Calls :
          \/ DoBegin(c)
          \/ DoEnd(c)
          \/ Consult(c)
          \/ Count(c)
          \/ NoRetry(c)
          \/ Wake(c)
          \/ Return(c)

SpecTwo == InitTwo /\ [][NextTwo]_vars

\* The caller builds two retry options with the same arguments: two values,
\* each with a backoff generator of its own.
SendRetryTwice ==
    /\ \A i \in RetryIds : ~retryVals[i].made
    /\ \E b \in BackoffChoices, extra \in ExtraCodeChoices :
           /\ retryVals' = [i \in RetryIds |->
                              [made |-> TRUE, backoff |-> i,
                               extraCodes |-> extra]]
           /\ backoffs' = [i \in BackoffIds |->
                             IF i \in RetryIds THEN b ELSE backoffs[i]]
    /\ UNCHANGED <<pc, opts, attempts, resp, err, d, hist, ret, cancelled,
                   net, seen>>
    /\ UNCHANGED <<req, sent, bodies, dump, handed>>
    /\ UNCHANGED factoryVars

\* A first Send call, without DisableHTTPFallback and without a body.
SendFirst ==
    /\ pc[1] = "idle"
    /\ \E scheme \in {"http", "https"} :
           \E o \in Merged(DefaultOptions(scheme), MaxOptions,
                           OptionValues \ {DisableHTTPFallback, SendBody,
                                           SendContext, SendRetryOption(2)}) :
               SendMerged(1, o)
    /\ UNCHANGED factoryVars

\* The options of the first call with DisableHTTPFallback() added, and with
\* the second of the two retry options in place of the first.
WithFallbackDisabled(o) ==
    ApplyOption([o EXCEPT !.retry.backoff = IF @ = NoRetryId THEN @ ELSE 2],
                DisableHTTPFallback)

\* The first call has returned; the same call is made again with
\* DisableHTTPFallback() added.
SendAgain ==
    /\ pc[1] = "done"
    /\ SendMerged(2, WithFallbackDisabled(opts[1]))
    /\ UNCHANGED factoryVars

\* The network and the server treat each attempt of the second call as they
\* treated that attempt of the first.
DoEndAsBefore ==
    /\ attempts[2] <= Len(hist[1])
    /\ DoReturns(2, hist[1][attempts[2]])

NextFallback ==
    \/ SendRetryTwice
    \/ SendFirst
    \/ Loop(1)
    \/ SendAgain
    \/ DoBegin(2)
    \/ DoEndAsBefore
    \/ Consult(2)
    \/ Count(2)
    \/ NoRetry(2)
    \/ Wake(2)
    \/ Return(2)

\* One call made twice, without and with DisableHTTPFallback.
SpecFallback == InitLive /\ [][NextFallback]_vars

(***************************************************************************)
(* Properties of Send.                                                     *)
(***************************************************************************)
Last(s) == s[Len(s)]
IsPrefix(s, t) == Len(s) <= Len(t) /\ s = SubSeq(t, 1, Len(s))

\* The backoff generator of a call's retry policy.
Policy(c) == backoffs[opts[c].retry.backoff]
\* The retries a generator allows a call that has it for itself.
MaxRetriesOf(b) == IF b.kind = "MaxRetries" THEN b.maxTries ELSE 0

Success(status) == [resp |-> status, err |-> NilErr]

\* C1: when the last attempt of a Send call yielded a response with status
\* s, the call returns that response and no error if s is in the accepted
\* codes A, and otherwise no response and a StatusError whose Status is s.
C1_SuccessIffAccepted ==
    \A c \in Calls :
        (pc[c] = "done" /\ Last(hist[c]).err = "nil") =>
            LET s == Last(hist[c]).status
                A == opts[c].acceptedCodes
            IN  /\ s \in A => ret[c] = Success(s)
                /\ s \notin A =>
                      /\ ret[c].resp = NoResp
                      /\ Len(ret[c].err) = 1
                      /\ ret[c].err[1].type = "StatusError"
                      /\ ret[c].err[1].status = s
                /\ (ret[c].err = NilErr) <=> (s \in A)

\* A call that accepts 401 and 503 only got a 200 after a retry and returned
\* a StatusError for it.
C1_Witness ==
    /\ pc[1] = "done"
    /\ opts[1].acceptedCodes = {StatusUnauthorized, StatusServiceUnavailable}
    /\ attempts[1] = 2
    /\ Last(hist[1]) = Response(StatusOK)
    /\ IsStatus(ret[1].err, StatusOK)

Script503 ==
    <<Response(StatusServiceUnavailable), Response(StatusServiceUnavailable),
      Response(StatusServiceUnavailable), Response(StatusOK)>>

\* C2: a Send call whose retry policy allows at most n retries makes at most
\* n+1 attempts; and a call with n = 3 (accepting 200 and not 503) that the
\* server answers 503, 503, 503, 200 goes through all four answers and ends
\* in success after exactly 4 attempts.
C2_AtMostRetriesPlusOne ==
    \A c \in Calls :
        /\ attempts[c] <= MaxRetriesOf(Policy(c)) + 1
        /\ ( /\ pc[c] = "done"
             /\ MaxRetriesOf(Policy(c)) = 3
             /\ StatusOK \in opts[c].acceptedCodes
             /\ StatusServiceUnavailable \notin opts[c].acceptedCodes
             /\ IsPrefix(hist[c], Script503) )
           => /\ hist[c] = Script503
              /\ attempts[c] = 4
              /\ ret[c] = Success(StatusOK)

C2_Witness ==
    /\ pc[1] = "done"
    /\ Policy(1) = [WithMaxRetries(DefaultMaxRetries) EXCEPT !.numTries = 3]
    /\ hist[1] = Script503
    /\ attempts[1] = 4
    /\ ret[1] = Success(StatusOK)

\* C3: a Send call whose backoff generator is one that signals stop at once
\* (the StopBackOff of a call given no retry option, or one the caller
\* passed) makes exactly one attempt, whatever its outcome: it never sleeps,
\* and once the attempt is over the count stays at 1.
C3_StopMeansOneAttempt ==
    \A c \in Calls :
        (pc[c] # "idle" /\ Policy(c).kind = "StopBackOff") =>
            /\ attempts[c] <= 1
            /\ pc[c] # "sleep"
            /\ pc[c] \in {"check", "exit", "done"} => attempts[c] = 1

\* A call given no retry option whose single attempt got a 503, and one whose
\* single attempt failed in the transport, are both possible; this is the
\* first.
C3_Witness ==
    /\ pc[1] = "done"
    /\ opts[1].retry.backoff = NoRetryId
    /\ hist[1] = <<Response(StatusServiceUnavailable)>>
    /\ attempts[1] = 1
    /\ d[1] = Stop

\* C4: once the context of a Send call with retries is cancelled while an
\* attempt is in flight or the call sleeps between two attempts, the retry
\* loop ends: the call starts no further attempt.
C4_NoAttemptAfterCancel ==
    [][\A c \in Calls :
          (opts[c].ctx = "caller" /\ cancelled[c] /\ attempts[c] >= 1) =>
              attempts'[c] = attempts[c]]_vars

\* C5: when the loop of a Send call ended because the retries were
\* exhausted, the result is that of the last attempt alone: a NetworkError
\* wrapping the failure of the last attempt if it failed in the transport, a
\* StatusError for its status if that is not accepted.
C5_LastAttemptDecides ==
    \A c \in Calls :
        (pc[c] = "done" /\ d[c] = Stop) =>
            LET last == Last(hist[c])
            IN  /\ last.err # "nil" =>
                      ret[c] = [resp |-> NoResp, err |-> NetworkError(last.err)]
                /\ (last.err = "nil"
                      /\ last.status \notin opts[c].acceptedCodes) =>
                      ret[c] = [resp |-> NoResp,
                                err |-> NewStatusError(last.status)]

\* Retries exhausted after a refused connection, a timeout and two 503s: the
\* result is the StatusError of the last 503.
C5_Witness ==
    /\ pc[1] = "done"
    /\ d[1] = Stop
    /\ hist[1] = <<Failure("refused"), Failure("timeout"),
                   Response(StatusServiceUnavailable),
                   Response(StatusServiceUnavailable)>>
    /\ IsStatus(ret[1].err, StatusServiceUnavailable)
    /\ ~IsNetworkError(ret[1].err)

\* C10: two Send calls given identical option values do not depend on each
\* other: each has the full retry budget of its policy, so a call that gave
\* up on a generator allowing n retries has made n+1 attempts.
C10_FullBudgetEach ==
    \A c \in Calls :
        (pc[c] = "done" /\ d[c] = Stop /\ Policy(c).kind = "MaxRetries") =>
            attempts[c] = Policy(c).maxTries + 1

\* The call returned a StatusError.
ReturnedStatusError(c) ==
    pc[c] = "done" /\ ErrorsAs(ret[c].err, "StatusError") # 0
\* The call returned a response and no error.
ReturnedResponse(c) ==
    pc[c] = "done" /\ ret[c].resp # NoResp /\ ret[c].err = NilErr
\* Send has left the body of the response it hands to its caller alone.
FinalBodyUntouched(c) ==
    /\ Last(bodies[c]).present
    /\ Last(bodies[c]).reads = 0
    /\ Last(bodies[c]).closes = 0

\* C11, as claimed: when Send returns a StatusError, the body of the final
\* response has been read once and closed exactly once, and the ResponseDump
\* of the error is the content of that body, verbatim; when Send returns a
\* response, it has neither read nor closed its body.
C11_DumpIsBodyVerbatim ==
    \A c \in Calls :
        /\ ReturnedStatusError(c) =>
              /\ Last(bodies[c]).reads = 1
              /\ Last(bodies[c]).closes = 1
              /\ dump[c] = Last(bodies[c]).data
        /\ ReturnedResponse(c) => FinalBodyUntouched(c)

\* C11, amended: when Send returns a StatusError, the body of the final
\* response has been read once and closed exactly once; the ResponseDump is
\* the content of the body, verbatim, when the body could be read to its
\* end, and the text "failed to dump response: " followed by the read
\* failure when it could not; when Send returns a response, it has neither
\* read nor closed its body.
C11_DumpIsBodyOrReadFailure ==
    \A c \in Calls :
        /\ ReturnedStatusError(c) =>
              LET b == Last(bodies[c])
              IN  /\ b.reads = 1
                  /\ b.closes = 1
                  /\ b.readErr = "nil" => dump[c] = b.data
                  /\ b.readErr # "nil" =>
                        dump[c] = <<"failed to dump response: ", b.readErr>>
        /\ ReturnedResponse(c) => FinalBodyUntouched(c)

\* A 401 whose body says "denied" became a StatusError with that dump, the
\* body closed once.
C11_Witness ==
    /\ ReturnedStatusError(1)
    /\ IsStatus(ret[1].err, StatusUnauthorized)
    /\ Last(bodies[1]) = [present |-> TRUE, reads |-> 1, closes |-> 1,
                          data |-> <<"denied">>, readErr |-> "nil"]
    /\ dump[1] = <<"denied">>

\* The option values that are not a SendAcceptedCodes.
OtherOptionValues == {op \in OptionValues : op.name # "SendAcceptedCodes"}

\* C12: whatever options a Send call has merged onto the defaults, its set
\* of accepted status codes is not empty; and every merge of options none of
\* which is an accepted-codes option leaves the set at exactly {200}.
C12_AcceptedNeverEmpty ==
    \A c \in Calls :
        pc[c] # "idle" =>
            /\ opts[c].acceptedCodes # {}
            /\ \A o \in Merged(DefaultOptions(opts[c].scheme), MaxOptions,
                                OtherOptionValues) :
                   o.acceptedCodes = {StatusOK}

\* The backoff generator was consulted after the last attempt of the call:
\* it handed out a wait (being counted, or slept), or it answered Stop.
Consulted(c) ==
    \/ pc[c] \in {"counting", "sleep"}
    \/ pc[c] \in {"exit", "done"} /\ d[c] = Stop

\* What the claim makes the condition of a consultation.
ShouldConsult(c) ==
    LET last == Last(hist[c])
    IN  \/ last.err # "nil"
        \/ /\ \/ last.status \in retryableCodes
               \/ last.status \in opts[c].retry.extraCodes
            /\ last.status \notin opts[c].acceptedCodes

\* C14: the backoff generator is consulted after an attempt exactly when the
\* attempt failed in the transport, or its response has a status that is
\* retryable (one of 429, 502, 503, 504 or of the caller's extra codes) and
\* not accepted; so no response with an accepted status is followed by a
\* consultation.
C14_ConsultIffRetryableAndNotAccepted ==
    \A c \in Calls :
        pc[c] \in {"counting", "sleep", "exit", "done"} =>
            /\ Consulted(c) <=> ShouldConsult(c)
            /\ ( /\ Last(hist[c]).err = "nil"
                 /\ Last(hist[c]).status \in opts[c].acceptedCodes )
               => ~Consulted(c)

\* C15: every attempt of a Send call is made with a request of its own, built
\* from the call's options: the i-th attempt has the i-th request built, and
\* it has the url of the options and their complete body to transmit,
\* whatever the attempts before it read of the body stream.
C15_FreshRequestEachAttempt ==
    \A c \in Calls :
        \A i \in 1..Len(sent[c]) :
            /\ sent[c][i].request = i
            /\ sent[c][i].scheme = opts[c].scheme
            /\ sent[c][i].body = opts[c].body

\* The i-th response of the call is the one Send handed to its caller.
HandedToCaller(c, i) == i = Len(bodies[c]) /\ ret[c].resp # NoResp

\* C16: when a Send call has returned, every response it obtained, those
\* superseded by a later attempt included, has one owner: either Send has
\* closed its body, exactly once, or it is the response handed to the caller
\* and Send has not closed it; none is left open with Send and none is
\* closed twice.
C16_EveryBodyHasOneOwner ==
    \A c \in Calls :
        pc[c] = "done" =>
            \A i \in 1..Len(bodies[c]) :
                bodies[c][i].present =>
                    /\ bodies[c][i].closes <= 1
                    /\ HandedToCaller(c, i) => bodies[c][i].closes = 0
                    /\ ~HandedToCaller(c, i) => bodies[c][i].closes = 1

\* C17: a Send call that got past url parsing and request construction and
\* has returned, has returned exactly one of a response and an error: a
\* response and the nil error, or no response and an error that is a
\* NetworkError or a StatusError, never both and never neither; until it
\* returns, nothing has been returned.
C17_ResponseXorError ==
    \A c \in Calls :
        /\ pc[c] = "done" =>
              \/ ret[c].resp # NoResp /\ ret[c].err = NilErr
              \/ /\ ret[c].resp = NoResp
                 /\ ret[c].err # NilErr
                 /\ ret[c].err[1].type \in {"NetworkError", "StatusError"}
        /\ pc[c] \notin {"done", "rejected"} => ret[c] = NoRet

\* A call whose retries ended on a timeout returned a NetworkError and no
\* response, although an earlier attempt had got one.
C17_Witness ==
    /\ pc[1] = "done"
    /\ hist[1] = <<Response(StatusServiceUnavailable), Failure("timeout")>>
    /\ ret[1] = [resp |-> NoResp, err |-> NetworkError("timeout")]

\* The non-stop durations NextBackOff has handed the call.
Waits(c) == {i \in 1..Len(handed[c]) : handed[c][i] # Stop}

\* C18: a Send call whose loop has been entered returns in the end, its
\* backoff generator signalling stop after finitely many consultations; and
\* a call that has returned has made one attempt more than the generator
\* handed it non-stop durations (until then, at most one more).
C18_TerminatesAfterStop ==
    /\ [](pc[1] = "loop" => <>(pc[1] = "done"))
    /\ [](\A c \in Calls :
             /\ attempts[c] <= 1 + Cardinality(Waits(c))
             /\ pc[c] = "done" => attempts[c] = 1 + Cardinality(Waits(c)))

\* A call with the retries of SendRetry(): three waits, a stop, four
\* attempts.
C18_Witness ==
    /\ pc[1] = "done"
    /\ handed[1] = <<InitialInterval, InitialInterval, InitialInterval, Stop>>
    /\ attempts[1] = 4

EndsInEcrSuffix(a) ==
    \E k \in 0..Len(a) : a = SubSeq(a, 1, k) \o EcrSuffix

\* The ping of the call has succeeded.
Probed == fpc \in {"Probed", "SchemeSelected", "TransportReady"}
\* ping has returned to BasicAuthTransport.
PingOver == fpc \notin {"Unauthenticated", "Pinging"}

\* C6: after a successful probe the factory selects Basic authentication
\* exactly when username and password are both non-empty and the address
\* ends in amazonaws.com; in every other case it selects Bearer
\* authentication scoped to the repository with the actions pull and push.
C6_BasicIffEcrWithCredentials ==
    fpc \in {"SchemeSelected", "TransportReady"} =>
        LET basic == /\ authConfig.Username # ""
                     /\ authConfig.Password # ""
                     /\ EndsInEcrSuffix(addr)
        IN  /\ handler.scheme \in {"Basic", "Bearer"}
            /\ handler.scheme = "Basic" <=> basic
            /\ handler.creds = [config |-> authConfig]
            /\ handler.scheme = "Bearer" =>
                  /\ handler.scopes =
                        <<[Repository |-> repo, Actions |-> <<"pull", "push">>]>>
                  /\ handler.clientID = "docker"
                  /\ ~handler.forceOAuth
            /\ fpc = "TransportReady" => transport.handler = handler

\* Full credentials and an address that holds amazonaws.com but ends in
\* a further domain: Bearer.
C6_Witness ==
    /\ fpc = "TransportReady"
    /\ authConfig.Username = "AWS"
    /\ authConfig.Password = "pw"
    /\ addr = EcrSuffix \o <<".", "c", "n">>
    /\ transport.handler.scheme = "Bearer"
    /\ transport.handler.scopes[1].Repository = repo

FactoryOrder ==
    {<<"Unauthenticated", "Pinging">>, <<"Pinging", "Probed">>,
     <<"Pinging", "Failed">>, <<"Probed", "SchemeSelected">>,
     <<"SchemeSelected", "TransportReady">>}

\* C7: a factory call goes from Unauthenticated (through its ping) to Probed,
\* SchemeSelected and TransportReady in that order; a transport is returned
\* only after the probe has succeeded and a scheme has been selected, and it
\* holds the manager of the probe and the selected handler; a failed probe
\* ends the call with an error that starts with "ping v2 registry: " and
\* with no transport.
C7_FactoryStateMachine ==
    /\ [][fpc' # fpc => <<fpc, fpc'>> \in FactoryOrder]_vars
    /\ []( /\ transport # NoTransport =>
                 /\ fpc = "TransportReady"
                 /\ pingErr = NilErr
                 /\ ret[1].err = NilErr
                 /\ cm # NilManager
                 /\ transport = [base |-> "tr", cm |-> cm, handler |-> handler]
                 /\ handler # NoHandler
                 /\ ferr = NilErr
           /\ fpc = "TransportReady" => transport # NoTransport
           /\ (PingOver /\ pingErr # NilErr) => fpc = "Failed"
           /\ fpc = "Failed" =>
                 /\ pingErr # NilErr
                 /\ transport = NoTransport
                 /\ handler = NoHandler
                 /\ ferr # NilErr
                 /\ ErrorString(ferr)
                       = <<"ping v2 registry: ">> \o ErrorString(pingErr) )

\* The probe got a 401 with the v2 header and a challenge that does not
\* parse: the call failed, with the prefixed error and no transport.
C7_Witness ==
    /\ fpc = "Failed"
    /\ ret[1] = Success(StatusUnauthorized)
    /\ registry.challenge = "malformed"
    /\ ErrorString(ferr)
          = <<"ping v2 registry: ", "add response: ", "invalid challenge">>
    /\ transport = NoTransport

\* C8: the probe succeeds only if one of the advertised API versions is
\* registry/2.0; when its request succeeded and no advertised version is
\* (none advertised, or only others), it fails with the not-v2 error and no
\* challenge manager is built or returned; when one is, exactly one manager
\* is built and it is fed the probe response, once.
C8_ProbeNeedsV2 ==
    LET v2 == \E i \in 1..Len(registry.versions) :
                  /\ registry.versions[i].Type = "registry"
                  /\ registry.versions[i].Version = "2.0"
    IN  /\ ~PingOver => managers = << >>
        /\ Probed => v2 /\ cm = 1
        /\ (PingOver /\ ret[1].err = NilErr /\ ~v2) =>
              /\ fpc = "Failed"
              /\ ErrorString(pingErr) = <<"registry is not v2">>
              /\ managers = << >>
              /\ cm = NilManager
        /\ (PingOver /\ ret[1].err = NilErr /\ v2) =>
              /\ Len(managers) = 1
              /\ managers[1].responses =
                    <<[status |-> ret[1].resp, versions |-> registry.versions,
                       challenge |-> registry.challenge]>>

\* A registry that advertises registry/1.0 and other/2.0 answered 200: not
\* v2, no manager.
C8_Witness ==
    /\ fpc = "Failed"
    /\ ret[1] = Success(StatusOK)
    /\ registry.versions = <<[Type |-> "registry", Version |-> "1.0"],
                             [Type |-> "other", Version |-> "2.0"]>>
    /\ ErrorString(pingErr) = <<"registry is not v2">>
    /\ managers = << >>

\* C13: the credential store holds no state but the credentials it was
\* built with: whatever calls of Basic, RefreshToken and SetRefreshToken
\* have been made on it, with whatever arguments, the store is still as it
\* was built, every Basic has returned (and returns) the username and the
\* password of the credentials the factory was given, and every
\* RefreshToken their identity token.
C13_StoreIsStateless ==
    /\ fpc = "TransportReady" =>
          LET cs == transport.handler.creds
          IN  /\ cs = [config |-> authConfig]
              /\ \A u \in StoreURLs :
                     Basic(cs, u) = <<authConfig.Username, authConfig.Password>>
              /\ \A u \in StoreURLs, service \in Services :
                     RefreshToken(cs, u, service) = <<authConfig.IdentityToken>>
    /\ called.op = "Basic" =>
          called.result = <<authConfig.Username, authConfig.Password>>
    /\ called.op = "RefreshToken" =>
          called.result = <<authConfig.IdentityToken>>
    /\ called.op = "SetRefreshToken" => called.result = << >>

\* After a SetRefreshToken with the token "rotated", RefreshToken for
\* another service still returned the identity token of the credentials.
C13_Witness ==
    /\ called.op = "RefreshToken"
    /\ called.given = "rotated"
    /\ called.service = "other"
    /\ called.result = <<"tok">>
    /\ authConfig.IdentityToken = "tok"

\* C9: the error the factory returns, which wraps the error of the probe's
\* Send, is classified by IsNetworkError, IsStatus and IsRetryable as that
\* error is.
C9_WrappedErrorStillClassified ==
    (fpc = "Failed" /\ ret[1].err # NilErr) =>
        /\ IsNetworkError(ferr) <=> IsNetworkError(ret[1].err)
        /\ IsRetryable(ferr) <=> IsRetryable(ret[1].err)
        /\ \A s \in Codes : IsStatus(ferr, s) <=> IsStatus(ret[1].err, s)

===========================================================================
